---- MODULE Spec2Model ----
(***************************************************************************)
(* CoreState deduplication service.                                        *)
(*                                                                         *)
(* The HTTP handlers of src/services/deduplication-service/main.py are     *)
(* modelled from their code.  The DeduplicationEngine they call (module    *)
(* `deduplication`, imported at main.py:19) is not part of the source      *)
(* tree; its operations are modelled from the design document (sections    *)
(* 4.3-4.7 and 5): ReferenceIndex primitives, ChunkStore, process_chunk,   *)
(* get_chunk, delete_chunk, update_reference_count, the expiry reaper and  *)
(* the compactor.                                                          *)
(***************************************************************************)
EXTENDS Integers, FiniteSets, Sequences, TLC

\* ------------------------------------------------------------------ bounds
NData == 2          \* distinct valid payloads a client may submit
NCalls == 3         \* foreground requests issued in one behaviour
NCompact == 1       \* POST /compact requests issued in one behaviour
MaxTime == 2        \* the clock runs 0..MaxTime
MaxCount == 2       \* largest reference count an initial entry is given
MaxDelta == 2       \* update_reference_count deltas range over -MaxDelta..MaxDelta
NUpdates == 1       \* direct update_reference_count calls in one behaviour
MaxLen == 6         \* longest byte stream given to the ChunkSplitter
MaxJobs == 3        \* most backup jobs in one schedule request
MaxPriority == 2    \* job priorities range over 1..MaxPriority
MaxOps == 3         \* most BackupPredictor calls in one run
MaxPreds == 4       \* most hourly predictions given to _find_optimal_windows
NStore == 3         \* store_prediction_data background tasks

\* ------------------------------------------------------- configuration
Grace == 1          \* tombstone grace period (clock ticks)

MinSize == 2        \* ChunkSplitter min_size
MaxSize == 4        \* ChunkSplitter max_size
Window == 2         \* bytes under the rolling fingerprint
Mask == 2           \* a natural boundary is a fingerprint that is 0 modulo Mask

\* ------------------------------------------------------------ constants
NoData == 0         \* "no payload under this hash"
NoTime == -1        \* tombstoned_at not set
HashBase == 10

Payloads == 1..NData              \* the valid payloads
EmptyData == 0                    \* the empty byte string
BigData == NData + 1              \* a payload over the maximum chunk size
InputData == Payloads \cup {EmptyData, BigData}

\* payload d is d bytes long; the configured maximum chunk size
Size(d) == d
MaxChunkSize == NData

\* process_chunk's input constraint: non-empty and at most the maximum
ValidInputNoEmpty(d) == Size(d) <= MaxChunkSize

ValidInput(d) == Size(d) > 0 /\ Size(d) <= MaxChunkSize

Calls == 1..NCalls
Compactions == 1..NCompact

\* HashComputer: deterministic and collision-free on the input domain.
HashOf(d) == HashBase + d

UnknownHash == HashBase          \* the address of no submitted payload
Hashes == {HashOf(d) : d \in Payloads} \cup {UnknownHash}

\* size_bytes of the entry of hash h (the size of the content it addresses)
SizeOfHash(h) == IF h = UnknownHash THEN 0 ELSE Size(h - HashBase)

VARIABLES
    index,      \* ReferenceIndex: hash -> [present, count, tomb]
    store,      \* ChunkStore backend image: hash -> payload or NoData
    stats,      \* StatsAggregator: running counters
    now,        \* clock
    calls,      \* foreground requests: call -> record
    reaper,     \* the cleanup_expired_chunks task
    comp,       \* compact_storage background tasks
    chunker,    \* a ChunkSplitter run: [stream, cuts, done]
    ml          \* the ML optimizer service: [sched, ...]

vars == <<index, store, stats, now, calls, reaper, comp, chunker, ml>>

\* the state of the engine, which a ChunkSplitter run leaves alone
engine == <<index, store, stats, now, calls, reaper, comp>>

\* ----------------------------------------------------- ReferenceIndex
NoEntry == [present |-> FALSE, count |-> 0, tomb |-> NoTime]

\* lookup_or_create: TRUE iff the entry is created by this call
Created(idx, h) == ~idx[h].present

LookupOrCreate(idx, h) ==
    IF idx[h].present
    THEN [idx EXCEPT ![h].count = @ + 1]
    ELSE [idx EXCEPT ![h] = [present |-> TRUE, count |-> 1, tomb |-> NoTime]]

\* decrement: the error it fails with, or "ok"
DecrementOutcome(idx, h, amount) ==
    IF ~idx[h].present THEN "NotFound"
    ELSE IF amount > idx[h].count THEN "ReferenceUnderflow"
    ELSE "ok"

DecrementNoGuard(idx, h, amount, t) ==
    IF ~idx[h].present THEN idx
    ELSE [idx EXCEPT ![h].count = @ - amount,
                     ![h].tomb = IF idx[h].count - amount <= 0 THEN t ELSE @]

DecrementDropsAtZero(idx, h, amount, t) ==
    IF DecrementOutcome(idx, h, amount) # "ok" THEN idx
    ELSE IF idx[h].count - amount = 0 THEN [idx EXCEPT ![h] = NoEntry]
    ELSE [idx EXCEPT ![h].count = @ - amount]

DecrementFirstTomb(idx, h, amount, t) ==
    IF DecrementOutcome(idx, h, amount) # "ok" THEN idx
    ELSE [idx EXCEPT ![h].count = @ - amount,
                     ![h].tomb = IF idx[h].count - amount = 0 /\ @ = NoTime
                                 THEN t ELSE @]

Decrement(idx, h, amount, t) ==
    IF DecrementOutcome(idx, h, amount) # "ok" THEN idx
    ELSE [idx EXCEPT ![h].count = @ - amount,
                     ![h].tomb = IF idx[h].count - amount = 0 THEN t ELSE @]

GraceElapsed(idx, h, t) ==
    idx[h].tomb # NoTime /\ t - idx[h].tomb >= Grace

\* mark_removed: allowed only for a zero count whose grace period elapsed
CanMarkRemovedNoCount(idx, h, t) ==
    idx[h].present /\ GraceElapsed(idx, h, t)

CanMarkRemoved(idx, h, t) ==
    idx[h].present /\ idx[h].count = 0 /\ GraceElapsed(idx, h, t)

MarkRemoved(idx, h, t) ==
    IF CanMarkRemoved(idx, h, t) THEN [idx EXCEPT ![h] = NoEntry] ELSE idx

\* snapshot of the ACTIVE hashes
LiveHashes(idx) == {h \in Hashes : idx[h].present /\ idx[h].count > 0}

\* --------------------------------------------------------- ChunkStore
Put(st, h, d) == IF st[h] # NoData THEN st ELSE [st EXCEPT ![h] = d]

Delete(st, h) == [st EXCEPT ![h] = NoData]

\* rewrite, first half: the fresh image holds only the live hashes
FreshImage(st, live) == [h \in Hashes |-> IF h \in live THEN st[h] ELSE NoData]

\* ------------------------------------------------ DeduplicationEngine
\* get_chunk: the payload, or NoData when it fails with NotFound
GetChunk(idx, st, h) == IF idx[h].present THEN st[h] ELSE NoData

GetChunkOK(h) == GetChunk(index, store, h) # NoData

\* update_reference_count: same protection as decrement
UpdateOutcome(idx, h, delta) ==
    IF ~idx[h].present THEN "NotFound"
    ELSE IF idx[h].count + delta < 0 THEN "ReferenceUnderflow"
    ELSE "ok"

UpdateReferenceCountAbs(idx, h, delta, t) ==
    IF UpdateOutcome(idx, h, delta) # "ok" THEN idx
    ELSE [idx EXCEPT ![h].count = @ + (IF delta < 0 THEN -delta ELSE delta)]

UpdateReferenceCount(idx, h, delta, t) ==
    IF UpdateOutcome(idx, h, delta) # "ok" THEN idx
    ELSE IF delta < 0 THEN Decrement(idx, h, -delta, t)
    ELSE [idx EXCEPT ![h].count = @ + delta]

\* ------------------------------------------------------ ChunkSplitter
Bytes == {0, 1}

RECURSIVE SumBytes(_, _, _)
SumBytes(s, lo, hi) == IF lo > hi THEN 0 ELSE s[lo] + SumBytes(s, lo + 1, hi)

\* rolling fingerprint over the last Window bytes up to offset i
Fingerprint(s, i) == SumBytes(s, IF i > Window THEN i - Window + 1 ELSE 1, i)

Natural(s, i) == Fingerprint(s, i) % Mask = 0

\* is offset i a boundary of the chunk that began after offset start
IsCutNoForce(s, start, i) ==
    i - start >= MinSize /\ Natural(s, i)

IsCut(s, start, i) ==
    \/ i - start >= MaxSize
    \/ i - start >= MinSize /\ Natural(s, i)

\* the boundary offsets from offset i on; what is left at the end of the
\* stream is the last chunk, and nothing left is no chunk
RECURSIVE Cut(_, _, _)
Cut(s, start, i) ==
    IF i > Len(s) THEN (IF start < Len(s) THEN <<Len(s)>> ELSE <<>>)
    ELSE IF IsCut(s, start, i) THEN <<i>> \o Cut(s, i, i + 1)
    ELSE Cut(s, start, i + 1)

Split(s) == Cut(s, 0, 1)

IdleChunker == [stream |-> <<>>, cuts |-> <<>>, done |-> FALSE]

\* ---------------------------------------------------- StatsAggregator
NoStats == [total_chunks |-> 0, unique_bytes |-> 0, logical_bytes |-> 0]

\* a reference to hash h is added (n > 0) or dropped (n < 0)
StatsRefsAdds(sa, h, n) ==
    [sa EXCEPT !.logical_bytes = @ + SizeOfHash(h)]

StatsRefs(sa, h, n) ==
    [sa EXCEPT !.logical_bytes = @ + n * SizeOfHash(h)]

\* ChunkStore.put of payload d under h: counted when it is written
StatsPut(sa, st, h, d) ==
    IF st[h] # NoData THEN sa
    ELSE [sa EXCEPT !.total_chunks = @ + 1, !.unique_bytes = @ + Size(d)]

\* ChunkStore.delete of h: counted when a payload was there
StatsDelete(sa, st, h) ==
    IF st[h] = NoData THEN sa
    ELSE [sa EXCEPT !.total_chunks = @ - 1, !.unique_bytes = @ - Size(st[h])]

RECURSIVE SumOver(_, _)
SumOver(S, f) ==
    IF S = {} THEN 0
    ELSE LET x == CHOOSE y \in S : TRUE IN f[x] + SumOver(S \ {x}, f)

\* ChunkStore.rewrite: the backend is the fresh image from now on
StatsRewrite(sa, image) ==
    [sa EXCEPT !.total_chunks = Cardinality({h \in Hashes : image[h] # NoData}),
               !.unique_bytes = SumOver(Hashes, [h \in Hashes |-> Size(image[h])])]

\* the three figures, computed from the index and the store
StatsOf(idx, st) ==
    [total_chunks |-> Cardinality({h \in Hashes : st[h] # NoData}),
     unique_bytes |-> SumOver(Hashes, [h \in Hashes |-> Size(st[h])]),
     logical_bytes |-> SumOver(Hashes, [h \in Hashes |->
         IF idx[h].present THEN idx[h].count * SizeOfHash(h) ELSE 0])]

\* ------------------------------------------------------ HTTP handlers
\* get_chunk handler: None -> 404, any other exception -> 500
GetStatus(outcome) ==
    IF outcome = "None" THEN 404
    ELSE IF outcome = "ok" THEN 200
    ELSE 500

\* delete_chunk handler: falsy result -> 404, any other exception -> 500
DeleteStatus(outcome) ==
    IF outcome = "false" THEN 404
    ELSE IF outcome = "ok" THEN 200
    ELSE 500

\* get_stats handler: any exception -> 500
StatsStatus(outcome) == IF outcome = "ok" THEN 200 ELSE 500

\* deduplicate_chunk handler: any exception -> 500
DedupStatus(outcome) == IF outcome = "ok" THEN 200 ELSE 500

\* ------------------------------------- ML optimizer: /optimize/schedule
\* estimated_size of a job, in units of 1000000 bytes
JobSizes == {0, 5, 10, 15}

DefaultDuration == 300      \* job.get('estimated_duration', 300)

MinOf(a, b) == IF a < b THEN a ELSE b

\* priority_score - size_score
OptimizationScore(job) == job.priority * 10 - MinOf(10, job.size)

\* sorted(..., reverse=True) is stable: of two jobs with equal scores the one
\* that comes first in the input stays first
RECURSIVE InsertByScore(_, _)
InsertByScore(sorted, job) ==
    IF sorted = <<>> THEN <<job>>
    ELSE IF OptimizationScore(Head(sorted)) >= OptimizationScore(job)
         THEN <<Head(sorted)>> \o InsertByScore(Tail(sorted), job)
         ELSE <<job>> \o sorted

RECURSIVE SortByScore(_)
SortByScore(jobs) ==
    IF jobs = <<>> THEN <<>>
    ELSE InsertByScore(SortByScore(SubSeq(jobs, 1, Len(jobs) - 1)), jobs[Len(jobs)])

\* sum of the estimated durations; every job carries the default
TotalTime(jobs) == DefaultDuration * Len(jobs)

IdleSched == [jobs |-> <<>>, result |-> <<>>, status |-> 0]

\* ------------------------------------------ ML optimizer: BackupPredictor
\* confidences, in tenths
DefaultConfidence == 5
ModelConfidence == 8
ErrorConfidence == 3
NoConfidence == 0       \* no prediction made yet

\* training data: empty frame, a complete frame, a frame without one of the
\* columns (KeyError when the columns are selected), a frame whose
\* backup_duration holds NaN (fit raises after the new model is assigned)
TrainingData == {"empty", "valid", "missing_column", "bad_target"}

\* feature dicts: finite numbers, or a value the scaler rejects (inf)
Features == {"finite", "not_finite"}

\* __init__; model is "None", "unfitted" (a fresh RandomForestRegressor) or
\* "fitted"; log lists the calls made
IdlePred == [model |-> "None", is_trained |-> FALSE,
             confidence |-> NoConfidence, log |-> <<>>]

\* train: the object after the call
Train(p, data) ==
    CASE data = "empty" -> p
      [] data = "missing_column" -> p
      [] data = "bad_target" -> [p EXCEPT !.model = "unfitted"]
      [] data = "valid" -> [p EXCEPT !.model = "fitted", !.is_trained = TRUE]

\* predict: the confidence returned
Predict(p, f) ==
    IF ~p.is_trained \/ p.model = "None" THEN DefaultConfidence
    ELSE IF f = "finite" /\ p.model = "fitted" THEN ModelConfidence
    ELSE ErrorConfidence

\* ------------------------------- OptimalWindowPredictor: optimal windows
\* quality scores, in tenths; a prediction is its score, its timestamp is its
\* position in the list
Scores == {5, 8, 9}

Threshold == 7          \* 'recommended': final_pred > 0.7

Recommended(score) == score > Threshold

MinDuration == 2        \* min_duration: int = 2

NoWindow == [start |-> 0, scores |-> <<>>]     \* current_window = None

RECURSIVE SumScores(_)
SumScores(scores) ==
    IF scores = <<>> THEN 0 ELSE Head(scores) + SumScores(Tail(scores))

\* the window appended when a not-recommended prediction at position i ends it;
\* avg_quality is total / duration_hours
CloseWindow(cur, i) ==
    [start |-> cur.start, end |-> i - 1,
     duration_hours |-> Len(cur.scores), total |-> SumScores(cur.scores)]

\* avg_quality of v >= avg_quality of w
AvgAtLeast(v, w) == v.total * w.duration_hours >= w.total * v.duration_hours

\* the for loop from position i on
RECURSIVE ScanPredictions(_, _, _, _)
ScanPredictions(preds, i, cur, windows) ==
    IF i > Len(preds) THEN windows
    ELSE IF Recommended(preds[i])
         THEN ScanPredictions(preds, i + 1,
                  IF cur = NoWindow
                  THEN [start |-> i, scores |-> <<preds[i]>>]
                  ELSE [cur EXCEPT !.scores = Append(@, preds[i])],
                  windows)
         ELSE ScanPredictions(preds, i + 1, NoWindow,
                  IF cur # NoWindow /\ Len(cur.scores) >= MinDuration
                  THEN Append(windows, CloseWindow(cur, i))
                  ELSE windows)

\* windows.sort(key=avg_quality, reverse=True), stable
RECURSIVE InsertByQuality(_, _)
InsertByQuality(sorted, w) ==
    IF sorted = <<>> THEN <<w>>
    ELSE IF AvgAtLeast(Head(sorted), w)
         THEN <<Head(sorted)>> \o InsertByQuality(Tail(sorted), w)
         ELSE <<w>> \o sorted

RECURSIVE SortByQuality(_)
SortByQuality(ws) ==
    IF ws = <<>> THEN <<>>
    ELSE InsertByQuality(SortByQuality(SubSeq(ws, 1, Len(ws) - 1)), ws[Len(ws)])

FindOptimalWindows(preds) ==
    SortByQuality(ScanPredictions(preds, 1, NoWindow, <<>>))

IdleWin == [preds |-> <<>>, windows |-> <<>>, done |-> FALSE]

\* ------------------------------------ ML optimizer: ml:predictions list
\* length the list is trimmed to: ltrim(.., 0, 9999) keeps 10000 entries,
\* scaled down
KeepLast == 2

\* LPUSH: the new entry becomes the head of the list
LPush(list, x) == <<x>> \o list

LTrimOneMore(list) == SubSeq(list, 1, MinOf(Len(list), KeepLast + 1))

\* LTRIM 0 KeepLast-1: the head of the list is kept
LTrim(list) == SubSeq(list, 1, MinOf(Len(list), KeepLast))

StoreCalls == 1..NStore

\* a store_prediction_data task: id is the entry it pushed, at the number of
\* entries pushed so far when it trimmed
IdleStore == [pc |-> "idle", id |-> 0, at |-> 0]

\* client: redis_client is set; list: ml:predictions; pushed: entries pushed
\* so far (entry k is the k-th one pushed); untrimmed: the latest LTRIM failed
IdleRedis == [client |-> TRUE, list |-> <<>>, pushed |-> 0,
              untrimmed |-> FALSE, calls |-> [c \in StoreCalls |-> IdleStore]]

IdleML == [sched |-> IdleSched, pred |-> IdlePred, win |-> IdleWin,
           redis |-> IdleRedis]

\* -------------------------------------------------------------- state
IdleCall == [op |-> "none", pc |-> "idle", data |-> NoData, hash |-> UnknownHash,
             created |-> FALSE, dup |-> FALSE, wrote |-> FALSE,
             outcome |-> "pending", status |-> 0, got |-> NoData,
             snap |-> NoStats, delta |-> 0, count |-> 0]

\* the reaper between cycles; failed and start describe its last cycle
IdleReaper == [pc |-> "sleep", queue |-> {}, cur |-> UnknownHash, stop |-> FALSE,
               failed |-> {}, start |-> 0]

IdleComp == [pc |-> "idle", live |-> {}, image |-> [h \in Hashes |-> NoData]]

Init ==
    /\ index = [h \in Hashes |-> NoEntry]
    /\ store = [h \in Hashes |-> NoData]
    /\ stats = NoStats
    /\ now = 0
    /\ calls = [c \in Calls |-> IdleCall]
    /\ reaper = IdleReaper
    /\ comp = [k \in Compactions |-> IdleComp]
    /\ chunker = IdleChunker
    /\ ml = IdleML

\* requests are numbered in the order they arrive
CanStart(c) ==
    /\ calls[c].op = "none"
    /\ \A b \in Calls : b < c => calls[b].op # "none"

\* ------------------------------------------------ POST /deduplicate
\* the request arrives; process_chunk is entered and computes the content
\* address of the data (a pure computation on the request alone)
deduplicate_chunk(c, d) ==
    /\ CanStart(c)
    /\ calls' = [calls EXCEPT ![c] =
           IF ValidInput(d)
           THEN [IdleCall EXCEPT !.op = "dedup", !.pc = "lookup",
                                 !.data = d, !.hash = HashOf(d)]
           ELSE [IdleCall EXCEPT !.op = "dedup", !.pc = "done", !.data = d,
                                 !.outcome = "InvalidInput",
                                 !.status = DedupStatus("InvalidInput")]]
    /\ UNCHANGED <<index, store, stats, now, reaper, comp, chunker, ml>>

\* process_chunk: ReferenceIndex.lookup_or_create.  A hit is reported as a
\* duplicate at once, and the handler schedules update_reference_count(hash, 1)
\* as a background task (pc "task") before it responds.
ProcessLookup(c) ==
    /\ calls[c].op = "dedup" /\ calls[c].pc = "lookup"
    /\ LET h == calls[c].hash
           cr == Created(index, h)
       IN /\ index' = LookupOrCreate(index, h)
          /\ stats' = StatsRefs(stats, h, 1)
          /\ calls' = [calls EXCEPT
                 ![c].created = cr,
                 ![c].dup = ~cr,
                 ![c].outcome = IF cr THEN "pending" ELSE "ok",
                 ![c].status = IF cr THEN 0 ELSE DedupStatus("ok"),
                 ![c].pc = IF cr THEN "put" ELSE "task"]
    /\ UNCHANGED <<store, now, reaper, comp, chunker, ml>>

\* process_chunk: ChunkStore.put for the entry this call created; ok = FALSE
\* is a StorageBackendError after the retries are exhausted
ProcessPut(c, ok) ==
    /\ calls[c].op = "dedup" /\ calls[c].pc = "put"
    /\ LET h == calls[c].hash
       IN IF ok
          THEN /\ store' = Put(store, h, calls[c].data)
               /\ stats' = StatsPut(stats, store, h, calls[c].data)
               /\ calls' = [calls EXCEPT ![c].wrote = TRUE, ![c].outcome = "ok",
                                         ![c].status = DedupStatus("ok"),
                                         ![c].pc = "done"]
          ELSE /\ store' = store
               /\ stats' = stats
               /\ calls' = [calls EXCEPT ![c].pc = "rollback"]
    /\ UNCHANGED <<index, now, reaper, comp, chunker, ml>>

\* process_chunk: roll the provisional entry back after the failed put
ProcessRollback(c) ==
    /\ calls[c].op = "dedup" /\ calls[c].pc = "rollback"
    /\ index' = Decrement(index, calls[c].hash, 1, now)
    /\ stats' = IF DecrementOutcome(index, calls[c].hash, 1) = "ok"
                THEN StatsRefs(stats, calls[c].hash, -1) ELSE stats
    /\ calls' = [calls EXCEPT ![c].outcome = "StorageBackendError",
                              ![c].status = DedupStatus("StorageBackendError"),
                              ![c].pc = "done"]
    /\ UNCHANGED <<store, now, reaper, comp, chunker, ml>>

\* the background task of a duplicate: update_reference_count(hash, 1)
FollowUpTask(c) ==
    /\ calls[c].op = "dedup" /\ calls[c].pc = "task"
    /\ index' = UpdateReferenceCount(index, calls[c].hash, 1, now)
    /\ stats' = IF UpdateOutcome(index, calls[c].hash, 1) = "ok"
                THEN StatsRefs(stats, calls[c].hash, 1) ELSE stats
    /\ calls' = [calls EXCEPT ![c].pc = "done"]
    /\ UNCHANGED <<store, now, reaper, comp, chunker, ml>>

\* ------------------------------------------------ GET /chunk/{hash}
get_chunk(c, h) ==
    /\ CanStart(c)
    /\ LET d == GetChunk(index, store, h)
           out == IF d = NoData THEN "NotFound" ELSE "ok"
       IN calls' = [calls EXCEPT ![c] = [IdleCall EXCEPT
                 !.op = "get", !.pc = "done", !.hash = h, !.got = d,
                 !.outcome = out, !.status = GetStatus(out)]]
    /\ UNCHANGED <<index, store, stats, now, reaper, comp, chunker, ml>>

\* --------------------------------------------- DELETE /chunk/{hash}
\* the engine may signal an absent hash by returning false or by NotFound
delete_chunk(c, h, asFalse) ==
    /\ CanStart(c)
    /\ LET dec == DecrementOutcome(index, h, 1)
           out == IF dec = "NotFound" /\ asFalse THEN "false" ELSE dec
       IN /\ index' = Decrement(index, h, 1, now)
          /\ stats' = IF dec = "ok" THEN StatsRefs(stats, h, -1) ELSE stats
          /\ calls' = [calls EXCEPT ![c] = [IdleCall EXCEPT
                 !.op = "delete", !.pc = "done", !.hash = h,
                 !.outcome = out, !.status = DeleteStatus(out)]]
    /\ UNCHANGED <<store, now, reaper, comp, chunker, ml>>

\* --------------------------------------------- GET /stats, GET /health
get_stats(c) ==
    /\ CanStart(c)
    /\ calls' = [calls EXCEPT ![c] = [IdleCall EXCEPT
           !.op = "stats", !.pc = "done", !.snap = stats,
           !.outcome = "ok", !.status = StatsStatus("ok")]]
    /\ UNCHANGED <<index, store, stats, now, reaper, comp, chunker, ml>>

\* ------------------------------------------------------ POST /compact
compact_storage(k) ==
    /\ comp[k].pc = "idle"
    /\ \A j \in Compactions : j < k => comp[j].pc # "idle"
    /\ comp' = [comp EXCEPT ![k].pc = "scheduled"]
    /\ UNCHANGED <<index, store, stats, now, calls, reaper, chunker, ml>>

\* Compactor: consistent snapshot of the ACTIVE hashes
CompactSnapshot(k) ==
    /\ comp[k].pc = "scheduled"
    /\ comp' = [comp EXCEPT ![k].pc = "build", ![k].live = LiveHashes(index)]
    /\ UNCHANGED <<index, store, stats, now, calls, reaper, chunker, ml>>

\* ChunkStore.rewrite: write the fresh image
CompactBuild(k) ==
    /\ comp[k].pc = "build"
    /\ comp' = [comp EXCEPT ![k].pc = "swap",
                            ![k].image = FreshImage(store, comp[k].live)]
    /\ UNCHANGED <<index, store, stats, now, calls, reaper, chunker, ml>>

\* ChunkStore.rewrite: swap the fresh image in, atomically
CompactSwap(k) ==
    /\ comp[k].pc = "swap"
    /\ store' = comp[k].image
    /\ stats' = StatsRewrite(stats, comp[k].image)
    /\ comp' = [comp EXCEPT ![k].pc = "done"]
    /\ UNCHANGED <<index, now, calls, reaper, chunker, ml>>

\* ------------------------------------------------------- ExpiryReaper
Eligible(idx, t) == {h \in Hashes : idx[h].present /\ GraceElapsed(idx, h, t)}

ReaperNext(q) == IF q = {} THEN "sleep" ELSE "recheck"

\* done with an entry: on to the entries left in q, or asleep until the next
\* cycle
Rest(r, q) ==
    [r EXCEPT !.pc = ReaperNext(q), !.queue = q, !.cur = UnknownHash,
              !.start = IF q = {} THEN 0 ELSE @]

\* a cycle starts: scan the tombstoned entries whose grace period elapsed
ReaperScan ==
    /\ reaper.pc = "sleep"
    /\ reaper' = IF Eligible(index, now) = {} THEN reaper
                 ELSE [reaper EXCEPT !.queue = Eligible(index, now),
                                     !.pc = "recheck",
                                     !.failed = {}, !.start = now]
    /\ UNCHANGED <<index, store, stats, now, calls, comp, chunker, ml>>

\* re-check reference_count == 0 for the next scanned entry
ReaperRecheck(h) ==
    /\ reaper.pc = "recheck"
    /\ h \in reaper.queue
    /\ LET q == reaper.queue \ {h}
       IN reaper' = IF index[h].present /\ index[h].count = 0
                    THEN [reaper EXCEPT !.pc = "delete", !.queue = q, !.cur = h]
                    ELSE Rest(reaper, q)
    /\ UNCHANGED <<index, store, stats, now, calls, comp, chunker, ml>>

\* the ChunkStore.delete of the current entry failed: log and continue with
\* the rest of the scan
AfterFailureAborts(r) ==
    Rest([r EXCEPT !.failed = @ \cup {r.cur}], {})

AfterFailure(r) ==
    Rest([r EXCEPT !.failed = @ \cup {r.cur}], r.queue)

\* still zero: delete the payload from the ChunkStore (ok), or fail to
ReaperDelete(ok) ==
    /\ reaper.pc = "delete"
    /\ IF ok
       THEN /\ store' = Delete(store, reaper.cur)
            /\ stats' = StatsDelete(stats, store, reaper.cur)
            /\ reaper' = [reaper EXCEPT !.pc = "mark"]
       ELSE /\ store' = store
            /\ stats' = stats
            /\ reaper' = AfterFailure(reaper)
    /\ UNCHANGED <<index, now, calls, comp, chunker, ml>>

\* then ReferenceIndex.mark_removed; a failure is logged and the scan goes on
ReaperMark ==
    /\ reaper.pc = "mark"
    /\ index' = MarkRemoved(index, reaper.cur, now)
    /\ reaper' = IF reaper.stop
                 THEN [IdleReaper EXCEPT !.pc = "stopped", !.stop = TRUE]
                 ELSE Rest(reaper, reaper.queue)
    /\ UNCHANGED <<store, stats, now, calls, comp, chunker, ml>>

\* ----------------------------------------------------------- shutdown
\* lifespan after the yield: cleanup_task.cancel(), then close().  The reaper
\* abandons its cycle, except that a mark_removed that is due after its
\* ChunkStore.delete is still carried out.
Shutdown ==
    /\ ~reaper.stop
    /\ reaper' = IF reaper.pc = "mark"
                 THEN [reaper EXCEPT !.stop = TRUE, !.queue = {}]
                 ELSE [IdleReaper EXCEPT !.pc = "stopped", !.stop = TRUE]
    /\ UNCHANGED <<index, store, stats, now, calls, comp, chunker, ml>>

\* -------------------------------------------------------------- clock
Tick ==
    /\ now < MaxTime
    /\ now' = now + 1
    /\ UNCHANGED <<index, store, stats, calls, reaper, comp, chunker, ml>>

Next ==
    \/ \E c \in Calls, d \in InputData : deduplicate_chunk(c, d)
    \/ \E c \in Calls : ProcessLookup(c)
    \/ \E c \in Calls, ok \in BOOLEAN : ProcessPut(c, ok)
    \/ \E c \in Calls : ProcessRollback(c)
    \/ \E c \in Calls : FollowUpTask(c)
    \/ \E c \in Calls, h \in Hashes : get_chunk(c, h)
    \/ \E c \in Calls, h \in Hashes, asFalse \in BOOLEAN : delete_chunk(c, h, asFalse)
    \/ \E c \in Calls : get_stats(c)
    \/ \E k \in Compactions : compact_storage(k)
    \/ \E k \in Compactions : CompactSnapshot(k)
    \/ \E k \in Compactions : CompactBuild(k)
    \/ \E k \in Compactions : CompactSwap(k)
    \/ ReaperScan
    \/ \E h \in Hashes : ReaperRecheck(h)
    \/ \E ok \in BOOLEAN : ReaperDelete(ok)
    \/ ReaperMark
    \/ Shutdown
    \/ Tick

Spec == Init /\ [][Next]_vars

\* ------------------------------------------------------------ helpers
Live(h) == index[h].present /\ index[h].count > 0

\* process_chunk of call c has returned to its caller
Returned(c) == calls[c].op = "dedup" /\ calls[c].pc \in {"task", "done"}

\* the request of call c is over, its background task included
Finished(c) == calls[c].op # "none" /\ calls[c].pc = "done"

\* every request that named hash h so far is a submission of payload d
OnlySubmissions(h, d) ==
    \A c \in Calls :
        (calls[c].op # "none" /\ (calls[c].hash = h \/ HashOf(calls[c].data) = h))
            => (calls[c].op = "dedup" /\ calls[c].data = d)

Submissions(d) == {c \in Calls : calls[c].op = "dedup" /\ calls[c].data = d}

\* a put (or its rollback) for hash h is still to come
PutPending(h) ==
    \E c \in Calls : calls[c].op = "dedup" /\ calls[c].hash = h
                      /\ calls[c].pc \in {"put", "rollback"}

\* no submission so far has hash h as its content address
NeverSubmitted(h) ==
    \A b \in Calls : calls[b].op = "dedup" => calls[b].hash # h

\* nothing is in progress: no request, no compaction, the reaper asleep
AtRest ==
    /\ \A c \in Calls : calls[c].pc \in {"idle", "done"}
    /\ \A k \in Compactions : comp[k].pc \in {"idle", "done"}
    /\ reaper.pc = "sleep"

\* ------------------------------------- update_reference_count alone
\* The engine operation called directly, from any index a run can leave.
Deltas == (0 - MaxDelta)..MaxDelta

Entries ==
    {NoEntry} \cup {[present |-> TRUE, count |-> n,
                     tomb |-> IF n = 0 THEN 0 ELSE NoTime] : n \in 0..MaxCount}

InitUpdate ==
    /\ index \in {f \in [Hashes -> Entries] : ~f[UnknownHash].present}
    /\ store = [h \in Hashes |-> IF index[h].present THEN h - HashBase ELSE NoData]
    /\ stats = StatsOf(index, store)
    /\ now = 0
    /\ calls = [c \in Calls |-> IdleCall]
    /\ reaper = IdleReaper
    /\ comp = [k \in Compactions |-> IdleComp]
    /\ chunker = IdleChunker
    /\ ml = IdleML

update_reference_count(c, h, delta) ==
    /\ CanStart(c)
    /\ c <= NUpdates
    /\ LET out == UpdateOutcome(index, h, delta)
       IN /\ index' = UpdateReferenceCount(index, h, delta, now)
          /\ stats' = IF out = "ok" THEN StatsRefs(stats, h, delta) ELSE stats
          /\ calls' = [calls EXCEPT ![c] = [IdleCall EXCEPT
                 !.op = "update", !.pc = "done", !.hash = h, !.delta = delta,
                 !.outcome = out,
                 !.count = IF out = "ok" THEN index'[h].count ELSE 0]]
    /\ UNCHANGED <<store, now, reaper, comp, chunker, ml>>

NextUpdate ==
    \E c \in Calls, h \in Hashes, delta \in Deltas : update_reference_count(c, h, delta)

SpecUpdate == InitUpdate /\ [][NextUpdate]_vars

\* --------------------------------------- submissions, then deletes
\* A client that submits, waits for everything to finish and then deletes;
\* one more request slot than in Spec, no reaper and no compaction.
ManyCalls == 1..(NCalls + 1)

InitCancel ==
    /\ index = [h \in Hashes |-> NoEntry]
    /\ store = [h \in Hashes |-> NoData]
    /\ stats = NoStats
    /\ now = 0
    /\ calls = [c \in ManyCalls |-> IdleCall]
    /\ reaper = IdleReaper
    /\ comp = [k \in Compactions |-> IdleComp]
    /\ chunker = IdleChunker
    /\ ml = IdleML

\* delete_chunk called once every earlier request is over
delete_after(c, h) ==
    /\ \A b \in ManyCalls : calls[b].pc \in {"idle", "done"}
    /\ delete_chunk(c, h, FALSE)

NextCancel ==
    \/ \E c \in ManyCalls, d \in Payloads : deduplicate_chunk(c, d)
    \/ \E c \in ManyCalls : ProcessLookup(c)
    \/ \E c \in ManyCalls, ok \in BOOLEAN : ProcessPut(c, ok)
    \/ \E c \in ManyCalls : ProcessRollback(c)
    \/ \E c \in ManyCalls : FollowUpTask(c)
    \/ \E c \in ManyCalls, h \in Hashes : delete_after(c, h)

SpecCancel == InitCancel /\ [][NextCancel]_vars

\* --------------------------------------------- overlapping compactions
\* One more POST /compact than in Spec, next to the submissions.
MoreCompactions == 1..(NCompact + 1)

InitOverlap ==
    /\ index = [h \in Hashes |-> NoEntry]
    /\ store = [h \in Hashes |-> NoData]
    /\ stats = NoStats
    /\ now = 0
    /\ calls = [c \in Calls |-> IdleCall]
    /\ reaper = IdleReaper
    /\ comp = [k \in MoreCompactions |-> IdleComp]
    /\ chunker = IdleChunker
    /\ ml = IdleML

NextOverlap ==
    \/ \E c \in Calls, d \in Payloads : deduplicate_chunk(c, d)
    \/ \E c \in Calls : ProcessLookup(c)
    \/ \E c \in Calls, ok \in BOOLEAN : ProcessPut(c, ok)
    \/ \E c \in Calls : ProcessRollback(c)
    \/ \E c \in Calls : FollowUpTask(c)
    \/ \E k \in MoreCompactions : compact_storage(k)
    \/ \E k \in MoreCompactions : CompactSnapshot(k)
    \/ \E k \in MoreCompactions : CompactBuild(k)
    \/ \E k \in MoreCompactions : CompactSwap(k)

SpecOverlap == InitOverlap /\ [][NextOverlap]_vars

\* ------------------------------------------- tombstoned entries, again
\* Every payload was submitted and deleted at time 0: the run starts with
\* its entries tombstoned and its payloads stored.
InitGrace ==
    /\ index = [h \in Hashes |->
                  IF h = UnknownHash THEN NoEntry
                  ELSE [present |-> TRUE, count |-> 0, tomb |-> 0]]
    /\ store = [h \in Hashes |-> IF h = UnknownHash THEN NoData ELSE h - HashBase]
    /\ stats = StatsOf(index, store)
    /\ now = 0
    /\ calls = [c \in Calls |-> IdleCall]
    /\ reaper = IdleReaper
    /\ comp = [k \in Compactions |-> IdleComp]
    /\ chunker = IdleChunker
    /\ ml = IdleML

NextGrace ==
    \/ \E c \in Calls, d \in Payloads : deduplicate_chunk(c, d)
    \/ \E c \in Calls : ProcessLookup(c)
    \/ \E c \in Calls : FollowUpTask(c)
    \/ \E c \in Calls, h \in Hashes : delete_chunk(c, h, FALSE)
    \/ ReaperScan
    \/ \E h \in Hashes : ReaperRecheck(h)
    \/ \E ok \in BOOLEAN : ReaperDelete(ok)
    \/ ReaperMark
    \/ Tick

SpecGrace == InitGrace /\ [][NextGrace]_vars

\* ------------------------------------------- POST /optimize/schedule
Jobs == [id : 1..MaxJobs, priority : 1..MaxPriority, size : JobSizes]

JobLists ==
    UNION {{js \in [1..n -> Jobs] : \A i \in 1..n : js[i].id = i} : n \in 0..MaxJobs}

InitSchedule ==
    /\ index = [h \in Hashes |-> NoEntry]
    /\ store = [h \in Hashes |-> NoData]
    /\ stats = NoStats
    /\ now = 0
    /\ calls = [c \in Calls |-> IdleCall]
    /\ reaper = IdleReaper
    /\ comp = [k \in Compactions |-> IdleComp]
    /\ chunker = IdleChunker
    /\ ml \in {[IdleML EXCEPT !.sched.jobs = js] : js \in JobLists}

\* the handler: score, sort, then the expected improvement, whose
\* time_reduction divides by the total time; any exception -> 500
optimize_backup_schedule ==
    /\ ml.sched.status = 0
    /\ ml' = IF TotalTime(ml.sched.jobs) = 0
             THEN [ml EXCEPT !.sched.status = 500]
             ELSE [ml EXCEPT !.sched.status = 200,
                             !.sched.result = SortByScore(ml.sched.jobs)]
    /\ UNCHANGED <<engine, chunker>>

SpecSchedule == InitSchedule /\ [][optimize_backup_schedule]_vars

\* ------------------------------------------------ BackupPredictor alone
train(data) ==
    /\ Len(ml.pred.log) < MaxOps
    /\ ml' = [ml EXCEPT !.pred = [Train(ml.pred, data) EXCEPT
                                     !.log = Append(ml.pred.log, data)]]
    /\ UNCHANGED <<engine, chunker>>

predict(f) ==
    /\ Len(ml.pred.log) < MaxOps
    /\ ml' = [ml EXCEPT !.pred.confidence = Predict(ml.pred, f),
                        !.pred.log = Append(ml.pred.log, f)]
    /\ UNCHANGED <<engine, chunker>>

NextPredictor ==
    \/ \E data \in TrainingData : train(data)
    \/ \E f \in Features : predict(f)

SpecPredictor == Init /\ [][NextPredictor]_vars

\* ----------------------------------------- _find_optimal_windows alone
Predictions == UNION {[1..n -> Scores] : n \in 0..MaxPreds}

InitWindows ==
    /\ index = [h \in Hashes |-> NoEntry]
    /\ store = [h \in Hashes |-> NoData]
    /\ stats = NoStats
    /\ now = 0
    /\ calls = [c \in Calls |-> IdleCall]
    /\ reaper = IdleReaper
    /\ comp = [k \in Compactions |-> IdleComp]
    /\ chunker = IdleChunker
    /\ ml \in {[IdleML EXCEPT !.win.preds = ps] : ps \in Predictions}

find_optimal_windows ==
    /\ ~ml.win.done
    /\ ml' = [ml EXCEPT !.win.windows = FindOptimalWindows(ml.win.preds),
                        !.win.done = TRUE]
    /\ UNCHANGED <<engine, chunker>>

SpecWindows == InitWindows /\ [][find_optimal_windows]_vars

\* positions a..b form a maximal run of recommended predictions
MaximalRun(preds, a, b) ==
    /\ a <= b
    /\ \A i \in a..b : Recommended(preds[i])
    /\ a = 1 \/ ~Recommended(preds[a - 1])
    /\ b = Len(preds) \/ ~Recommended(preds[b + 1])

\* ------------------------------------------- store_prediction_data alone
InitRedis ==
    /\ index = [h \in Hashes |-> NoEntry]
    /\ store = [h \in Hashes |-> NoData]
    /\ stats = NoStats
    /\ now = 0
    /\ calls = [c \in Calls |-> IdleCall]
    /\ reaper = IdleReaper
    /\ comp = [k \in Compactions |-> IdleComp]
    /\ chunker = IdleChunker
    /\ ml \in {[IdleML EXCEPT !.redis.client = b] : b \in BOOLEAN}

\* the task up to the end of its first await: nothing happens without a
\* client; a failing LPUSH ends the task in the except branch
store_prediction_data(c, ok) ==
    LET r == ml.redis
    IN /\ r.calls[c].pc = "idle"
       /\ ml' = IF ~r.client \/ ~ok
                THEN [ml EXCEPT !.redis.calls[c].pc = "done"]
                ELSE [ml EXCEPT !.redis.list = LPush(r.list, r.pushed + 1),
                                !.redis.pushed = r.pushed + 1,
                                !.redis.calls[c] = [pc |-> "pushed",
                                                    id |-> r.pushed + 1,
                                                    at |-> 0]]
       /\ UNCHANGED <<engine, chunker>>

\* the second await; a failing LTRIM ends the task in the except branch
StoreTrim(c, ok) ==
    LET r == ml.redis
    IN /\ r.calls[c].pc = "pushed"
       /\ ml' = [ml EXCEPT !.redis.list = IF ok THEN LTrim(r.list) ELSE r.list,
                           !.redis.untrimmed = ~ok,
                           !.redis.calls[c].pc = "done",
                           !.redis.calls[c].at = r.pushed]
       /\ UNCHANGED <<engine, chunker>>

NextRedis ==
    \/ \E c \in StoreCalls, ok \in BOOLEAN : store_prediction_data(c, ok)
    \/ \E c \in StoreCalls, ok \in BOOLEAN : StoreTrim(c, ok)

SpecRedis == InitRedis /\ [][NextRedis]_vars

\* no store_prediction_data call is between its LPUSH and its LTRIM
NoStoreInProgress == \A c \in StoreCalls : ml.redis.calls[c].pc # "pushed"

\* the list holds the n most recently pushed entries, newest first
HoldsLatest(n) ==
    /\ Len(ml.redis.list) = n
    /\ \A i \in 1..n : ml.redis.list[i] = ml.redis.pushed - i + 1

\* ------------------------------------------------ ChunkSplitter alone
Streams == UNION {[1..n -> Bytes] : n \in 0..MaxLen}

InitSplit ==
    /\ index = [h \in Hashes |-> NoEntry]
    /\ store = [h \in Hashes |-> NoData]
    /\ stats = NoStats
    /\ now = 0
    /\ calls = [c \in Calls |-> IdleCall]
    /\ reaper = IdleReaper
    /\ comp = [k \in Compactions |-> IdleComp]
    /\ chunker \in {[IdleChunker EXCEPT !.stream = s] : s \in Streams}
    /\ ml = IdleML

split ==
    /\ ~chunker.done
    /\ chunker' = [chunker EXCEPT !.cuts = Split(chunker.stream), !.done = TRUE]
    /\ UNCHANGED <<engine, ml>>

SpecSplit == InitSplit /\ [][split]_vars

\* length of the k-th chunk of a finished run
ChunkLen(k) ==
    chunker.cuts[k] - (IF k = 1 THEN 0 ELSE chunker.cuts[k - 1])

\* ------------------------------------------------------------- claims

\* C1: two process_chunk calls with the same payload on a hash not yet in the
\* index, in any interleaving and with no backend failure: both succeed,
\* exactly one reports is_duplicate = false, the final reference count is 2
\* and only one of them wrote the payload.
C1_ConcurrentDuplicates ==
    \A d \in Payloads : \A a, b \in Calls :
        ( /\ a < b
          /\ Submissions(d) = {a, b}
          /\ OnlySubmissions(HashOf(d), d)
          /\ Finished(a) /\ Finished(b)
          /\ calls[a].outcome # "StorageBackendError"
          /\ calls[b].outcome # "StorageBackendError" )
        => ( /\ calls[a].outcome = "ok" /\ calls[b].outcome = "ok"
             /\ calls[a].dup # calls[b].dup
             /\ calls[a].wrote # calls[b].wrote
             /\ index[HashOf(d)].present
             /\ index[HashOf(d)].count = 2 )

\* C2: k submissions of the same data through POST /deduplicate and nothing
\* else on that hash, every background task run: one call reports
\* is_duplicate = false, the others true with nothing stored, and the
\* reference count is exactly k.
C2_CountEqualsSubmissions ==
    \A d \in Payloads :
        ( /\ Submissions(d) # {}
          /\ OnlySubmissions(HashOf(d), d)
          /\ \A c \in Submissions(d) : Finished(c) /\ calls[c].outcome = "ok" )
        => ( /\ Cardinality({c \in Submissions(d) : ~calls[c].dup}) = 1
             /\ \A c \in Submissions(d) : calls[c].dup => ~calls[c].wrote
             /\ index[HashOf(d)].count = Cardinality(Submissions(d)) )

\* C3: the reaper never deletes the payload of an entry whose reference
\* count is > 0 (a count that dropped to 0 and was incremented again).
C3_ReaperSparesLive ==
    [][ \A h \in Hashes :
          ( /\ reaper.pc = "delete" /\ reaper'.pc = "mark" /\ reaper.cur = h
            /\ store[h] # NoData /\ store'[h] = NoData )
              => ~(index[h].present /\ index[h].count > 0) ]_vars

\* C4: in every reachable state a hash has an index entry if and only if
\* its payload is in the ChunkStore.
C4_IndexIffStored ==
    \A h \in Hashes : index[h].present <=> (store[h] # NoData)

\* C5: the reference count is never negative, and a delete_chunk on an entry
\* whose count is 0 fails with ReferenceUnderflow and leaves the entry as is.
C5_NoUnderflow ==
    [][ /\ \A h \in Hashes : index'[h].count >= 0
        /\ \A c \in Calls :
             ( /\ calls[c].op = "none" /\ calls'[c].op = "delete"
               /\ index[calls'[c].hash].present
               /\ index[calls'[c].hash].count = 0 )
             => ( /\ calls'[c].outcome = "ReferenceUnderflow"
                  /\ index' = index ) ]_vars

C5_Witness ==
    \E c \in Calls :
        /\ calls[c].op = "delete" /\ calls[c].outcome = "ReferenceUnderflow"
        /\ index[calls[c].hash].present /\ index[calls[c].hash].count = 0

\* C6: when process_chunk returns StorageBackendError after the put for the
\* entry it created failed, no entry with count > 0 is left for its hash
\* without the payload in the store.
C6_RollbackLeavesNoClaim ==
    [][ \A c \in Calls :
          (calls[c].pc = "rollback" /\ calls'[c].pc = "done")
              => ~( /\ index'[calls[c].hash].present
                    /\ index'[calls[c].hash].count > 0
                    /\ store'[calls[c].hash] = NoData ) ]_vars

\* C7: once process_chunk has returned is_duplicate = false for a hash,
\* get_chunk for it returns the submitted bytes while the entry is in the
\* index (here: in the index with a count > 0).
C7_ReadYourWrites ==
    \A c \in Calls :
        ( /\ Finished(c) /\ calls[c].op = "dedup"
          /\ calls[c].outcome = "ok" /\ ~calls[c].dup
          /\ Live(calls[c].hash) )
        => GetChunk(index, store, calls[c].hash) = calls[c].data

\* C8: a hash whose count was > 0 when compact_storage took its snapshot (and
\* is still > 0, with no put of it pending) is retrievable once the
\* compaction has completed.
C8_LiveSurvivesCompaction ==
    \A k \in Compactions : \A h \in Hashes :
        ( /\ comp[k].pc = "done"
          /\ h \in comp[k].live
          /\ Live(h) /\ ~PutPending(h) )
        => GetChunkOK(h)

\* C9: the atomic swap of a compaction never takes away a chunk that
\* process_chunk has reported stored and whose count is > 0, whenever the
\* chunk was written.
C9_SwapKeepsForegroundWrites ==
    [][ \A k \in Compactions : \A c \in Calls :
          ( /\ comp[k].pc = "swap" /\ comp'[k].pc = "done"
            /\ Returned(c) /\ calls[c].outcome = "ok"
            /\ Live(calls[c].hash)
            /\ GetChunkOK(calls[c].hash) )
          => store'[calls[c].hash] # NoData ]_vars

\* C10: get_chunk and delete_chunk on a hash never submitted fail with
\* NotFound, reported to the caller as 404, and create no index entry.
C10_NotFoundIs404 ==
    \A c \in Calls :
        ( /\ calls[c].op \in {"get", "delete"} /\ calls[c].pc = "done"
          /\ NeverSubmitted(calls[c].hash) )
        => ( /\ calls[c].outcome \in {"NotFound", "false"}
             /\ calls[c].status = 404
             /\ ~index[calls[c].hash].present )

\* C11: no dead data leaks.  With nothing in progress (no request, no
\* compaction, the reaper asleep), a hash that has no index entry has no
\* payload left in the ChunkStore: what the reaper removed from the index
\* is gone from the store.
C11_NoOrphanAtRest ==
    AtRest => \A h \in Hashes : ~index[h].present => store[h] = NoData

C14_ShutdownConsistent ==
    ( /\ reaper.pc = "stopped"
      /\ \A c \in Calls : calls[c].pc \in {"idle", "done"}
      /\ \A k \in Compactions : comp[k].pc = "idle" )
    => \A h \in Hashes :
          (\E c \in Calls : calls[c].op = "dedup" /\ calls[c].hash = h /\ calls[c].wrote)
              => (index[h].present <=> store[h] # NoData)

\* C15: update_reference_count(hash, delta) on an entry with count n returns
\* n + delta and sets the count to it when n + delta >= 0, for either sign of
\* delta; when n + delta < 0 it fails with ReferenceUnderflow and the count
\* stays n; on an absent hash it fails with NotFound and creates no entry.
C15_UpdateSemantics ==
    [][ \A c \in Calls :
          (calls[c].op = "none" /\ calls'[c].op = "update")
          => LET h == calls'[c].hash
                 n == index[h].count
                 d == calls'[c].delta
             IN IF ~index[h].present
                THEN calls'[c].outcome = "NotFound" /\ index' = index
                ELSE IF n + d >= 0
                THEN /\ calls'[c].outcome = "ok"
                     /\ calls'[c].count = n + d
                     /\ index'[h].present /\ index'[h].count = n + d
                     /\ \A g \in Hashes \ {h} : index'[g] = index[g]
                ELSE /\ calls'[c].outcome = "ReferenceUnderflow"
                     /\ index' = index ]_vars

\* a negative delta has been applied to an entry and left a count > 0
C15_Witness ==
    \E c \in Calls :
        /\ calls[c].op = "update" /\ calls[c].outcome = "ok"
        /\ calls[c].delta < 0
        /\ index[calls[c].hash].count = calls[c].count
        /\ calls[c].count > 0

\* C16: the running counters always equal the figures computed from the
\* index and the store (unique_bytes the sizes of the stored payloads,
\* logical_bytes the sum of reference_count times size, total_chunks the
\* number of stored chunks); get_stats reports them and changes no state.
C16_StatsMatch ==
    [][ /\ stats' = StatsOf(index', store')
        /\ \A c \in Calls :
             (calls[c].op = "none" /\ calls'[c].op = "stats")
             => ( /\ calls'[c].snap = StatsOf(index, store)
                  /\ calls'[c].status = 200
                  /\ index' = index /\ store' = store /\ stats' = stats ) ]_vars

\* get_stats has reported a store in which deduplication saved bytes
C16_Witness ==
    \E c \in Calls :
        /\ calls[c].op = "stats"
        /\ calls[c].snap.total_chunks > 0
        /\ calls[c].snap.logical_bytes > calls[c].snap.unique_bytes

\* C17: process_chunk with empty or oversized data fails with InvalidInput,
\* and a request that fails with InvalidInput, NotFound or ReferenceUnderflow
\* leaves the index, the store and the stats counters as they were.
C17_RejectedChangesNothing ==
    [][ \A c \in Calls :
          /\ ( /\ calls[c].op = "none" /\ calls'[c].op = "dedup"
               /\ ~(Size(calls'[c].data) > 0 /\ Size(calls'[c].data) <= MaxChunkSize) )
             => calls'[c].outcome = "InvalidInput"
          /\ ( /\ calls[c].outcome = "pending"
               /\ calls'[c].outcome \in {"InvalidInput", "NotFound", "None",
                                         "false", "ReferenceUnderflow"} )
             => (index' = index /\ store' = store /\ stats' = stats) ]_vars

\* an empty or oversized submission has been rejected after a chunk was
\* stored and read back
C17_Witness ==
    \E b, c \in Calls :
        /\ b < c
        /\ calls[b].op = "get" /\ calls[b].outcome = "ok"
        /\ calls[c].op = "dedup" /\ calls[c].outcome = "InvalidInput"
        /\ index[calls[b].hash].present /\ store[calls[b].hash] # NoData

\* C19: for a non-empty stream the chunks cover the stream, each is at most
\* max_size long and, except possibly the last, at least min_size long; a
\* stream shorter than min_size yields exactly one chunk; a chunk that is not
\* the last and does not end at a natural boundary is exactly max_size long.
\* An empty stream yields no chunk.
C19_ChunkSizes ==
    chunker.done =>
        LET s == chunker.stream
            n == Len(chunker.cuts)
        IN /\ (Len(s) = 0) <=> (n = 0)
           /\ n > 0 => chunker.cuts[n] = Len(s)
           /\ \A k \in 1..n : ChunkLen(k) >= 1 /\ ChunkLen(k) <= MaxSize
           /\ \A k \in 1..n : k < n => ChunkLen(k) >= MinSize
           /\ (Len(s) > 0 /\ Len(s) < MinSize) => n = 1
           /\ \A k \in 1..n :
                 LET from == chunker.cuts[k] - ChunkLen(k)
                 IN /\ (k < n /\ ~Natural(s, chunker.cuts[k]))
                         => ChunkLen(k) = MaxSize
                    /\ ( /\ from + MaxSize <= Len(s)
                         /\ \A i \in (from + MinSize)..(from + MaxSize - 1) :
                                ~Natural(s, i) )
                         => ChunkLen(k) = MaxSize

\* a stream was cut at max_size where it had no natural boundary, and more
\* of the stream followed
C19_Witness ==
    /\ chunker.done
    /\ Len(chunker.cuts) >= 2
    /\ ChunkLen(1) = MaxSize
    /\ ~Natural(chunker.stream, MaxSize)

C24_OverlapKeepsLive ==
    \A h \in Hashes :
        ( /\ \A k \in MoreCompactions : comp[k].pc = "done"
          /\ Live(h) /\ ~PutPending(h)
          /\ \E c \in Calls : /\ calls[c].op = "dedup" /\ calls[c].hash = h
                                /\ calls[c].wrote /\ calls[c].outcome = "ok" )
        => GetChunkOK(h)

\* C25: when process_chunk re-submits a chunk that was stored, is tombstoned
\* (count 0, entry in the index) and was left out of the snapshot of a
\* compaction that has completed, it reports a duplicate, the count rises
\* above 0 and get_chunk for the hash succeeds (before any grace period can
\* have elapsed, so the reaper has removed nothing).
C25_ResubmittedAfterCompaction ==
    [][ \A c \in Calls : \A k \in Compactions :
          LET h == calls[c].hash
          IN ( /\ calls[c].op = "dedup"
               /\ calls[c].pc = "lookup" /\ calls'[c].pc = "task"
               /\ comp[k].pc = "done" /\ h \notin comp[k].live
               /\ index[h].present /\ index[h].count = 0
               /\ \E b \in Calls : /\ calls[b].op = "dedup" /\ calls[b].hash = h
                                     /\ calls[b].wrote
               /\ now < Grace )
             => ( /\ calls'[c].dup /\ calls'[c].outcome = "ok"
                  /\ index'[h].count > 0
                  /\ GetChunk(index', store', h) # NoData ) ]_vars

\* C26: after k submissions of the same data (every follow-up task run, all
\* successful) followed by k deletes of its hash and nothing else on that
\* hash, all deletes have succeeded, the count is 0 and the entry is
\* tombstoned.
C26_DeletesCancelSubmissions ==
    \A d \in Payloads :
        LET h == HashOf(d)
            S == {c \in ManyCalls : calls[c].op = "dedup" /\ calls[c].data = d}
            D == {c \in ManyCalls : calls[c].op = "delete" /\ calls[c].hash = h}
        IN ( /\ S # {} /\ Cardinality(D) = Cardinality(S)
             /\ \A a \in S : \A b \in D : a < b
             /\ \A c \in S : calls[c].pc = "done" /\ calls[c].outcome = "ok" )
           => ( /\ \A c \in D : calls[c].outcome = "ok"
                /\ index[h].present
                /\ index[h].count = 0
                /\ index[h].tomb # NoTime )

\* C27: once process_chunk has returned is_duplicate = true for a hash and
\* the count of the hash is > 0, get_chunk for the hash succeeds.
C27_DuplicateIsReadable ==
    \A c \in Calls :
        ( /\ Returned(c) /\ calls[c].outcome = "ok" /\ calls[c].dup
          /\ Live(calls[c].hash) )
        => GetChunkOK(calls[c].hash)

C21_HighPriorityFirst ==
    (ml.sched.status # 0 /\ ml.sched.jobs # <<>>)
    => LET res == ml.sched.result
       IN /\ ml.sched.status = 200
          /\ Len(res) = Len(ml.sched.jobs)
          /\ \A i \in 1..Len(ml.sched.jobs) :
                Cardinality({j \in 1..Len(res) : res[j] = ml.sched.jobs[i]}) = 1
          /\ \A i, j \in 1..Len(res) :
                i < j => res[i].priority >= res[j].priority

\* C22: BackupPredictor starts untrained with no model; train with empty data
\* leaves an untrained predictor untrained; train with valid data makes it
\* trained with a model; is_trained implies a model after any train calls;
\* predict returns confidence 0.5 exactly when untrained and 0.8 when trained.
C22_PredictorContract ==
    [][ LET p == ml.pred
            q == ml'.pred
            last == q.log[Len(q.log)]
        IN Len(q.log) = Len(p.log) + 1
           => /\ p.log = <<>> => (~p.is_trained /\ p.model = "None")
              /\ (last = "empty" /\ ~p.is_trained) => ~q.is_trained
              /\ last = "valid" => (q.is_trained /\ q.model # "None")
              /\ q.is_trained => q.model # "None"
              /\ last \in Features
                    => /\ q.confidence = DefaultConfidence <=> ~q.is_trained
                       /\ q.is_trained => q.confidence = ModelConfidence ]_vars

\* C29: _find_optimal_windows returns exactly one window for every maximal
\* run of at least min_duration consecutive recommended predictions, a run
\* that reaches the last prediction included, with duration_hours the run
\* length, and the windows come sorted by avg_quality, best first.
C29_WindowPerRun ==
    ml.win.done
    => LET ps == ml.win.preds
           ws == ml.win.windows
           runs == {r \in (1..Len(ps)) \X (1..Len(ps)) :
                       /\ MaximalRun(ps, r[1], r[2])
                       /\ r[2] - r[1] + 1 >= MinDuration}
       IN /\ Len(ws) = Cardinality(runs)
          /\ \A r \in runs :
                Cardinality({k \in 1..Len(ws) :
                                /\ ws[k].start = r[1]
                                /\ ws[k].duration_hours = r[2] - r[1] + 1}) = 1
          /\ \A k \in 1..(Len(ws) - 1) : AvgAtLeast(ws[k], ws[k + 1])

TypeOK ==
    /\ \A h \in Hashes : index[h].count \in Int /\ store[h] \in Payloads \cup {NoData}
    /\ now \in 0..MaxTime
====
